---- MODULE Spec2Model ----
(***************************************************************************)
(* MusicHub: the audio-link parser (src/audio-parser.js) and the feed      *)
(* loader of the application (src/app.js, GitHubAPI, LastComment).         *)
(*                                                                         *)
(* Texts are sequences of one-character strings.  Indices into a text are  *)
(* the 0-based indices of JavaScript (lastIndex, match.index); the         *)
(* character at index i is text[i + 1].                                    *)
(***************************************************************************)
EXTENDS Integers, Sequences, FiniteSets, TLC

VARIABLES
    lastIndex,   \* AudioParser: lastIndex of each platform's /gi pattern object
    calls,       \* the number of AudioParser methods called so far
    op,          \* AudioParser: the method called last ("none" before any call)
    text,        \* AudioParser: its argument
    links,       \* the URL occurrences the argument was written with
    result,      \* AudioParser: the value it returned
    enableAutoRefresh,  \* CONFIG.app.enableAutoRefresh
    initPc,             \* MusicHub.init: the await it is suspended at, or "done"
    isLoading,          \* MusicHub.isLoading
    discussions,        \* MusicHub.discussions
    feedInFlight,       \* fetchDiscussions requests awaiting their response
    lastCommentInFlight, \* fetchLastComment requests awaiting their response
    feed,               \* what #feed-grid shows
    lastCommentView,    \* what #last-comment-container shows
    query,              \* the value of #search-input last handled
    autoRefreshTimer,   \* MusicHub.autoRefreshTimer (0 is null)
    activeTimers,       \* the interval timers that are set and not cleared
    timersCreated,      \* the number of setInterval calls so far
    event               \* the handler that ran last, and what it was given

parserVars == <<lastIndex, calls, op, text, links, result>>

appVars == <<enableAutoRefresh, initPc, isLoading, discussions, feedInFlight,
             lastCommentInFlight, feed, lastCommentView, query,
             autoRefreshTimer, activeTimers, timersCreated, event>>

vars == <<parserVars, appVars>>

(***************************************************************************)
(* Characters                                                              *)
(***************************************************************************)
LowerLetters == {"a","b","c","d","e","f","g","h","i","j","k","l","m",
                 "n","o","p","q","r","s","t","u","v","w","x","y","z"}
UpperLetters == {"A","B","C","D","E","F","G","H","I","J","K","L","M",
                 "N","O","P","Q","R","S","T","U","V","W","X","Y","Z"}
Digits == {"0","1","2","3","4","5","6","7","8","9"}

toUpperCase ==
    [c \in LowerLetters |->
        CASE c = "a" -> "A" [] c = "b" -> "B" [] c = "c" -> "C" [] c = "d" -> "D"
          [] c = "e" -> "E" [] c = "f" -> "F" [] c = "g" -> "G" [] c = "h" -> "H"
          [] c = "i" -> "I" [] c = "j" -> "J" [] c = "k" -> "K" [] c = "l" -> "L"
          [] c = "m" -> "M" [] c = "n" -> "N" [] c = "o" -> "O" [] c = "p" -> "P"
          [] c = "q" -> "Q" [] c = "r" -> "R" [] c = "s" -> "S" [] c = "t" -> "T"
          [] c = "u" -> "U" [] c = "v" -> "V" [] c = "w" -> "W" [] c = "x" -> "X"
          [] c = "y" -> "Y" [] c = "z" -> "Z"]

toLowerCase ==
    [c \in UpperLetters |-> CHOOSE l \in LowerLetters : toUpperCase[l] = c]

\* Canonicalize of a character under the i flag (no u flag): its upper case
Canonicalize(c, ignoreCase) ==
    IF ignoreCase /\ c \in LowerLetters THEN toUpperCase[c] ELSE c

\* \w and \s of the pattern syntax
WordChars == LowerLetters \cup UpperLetters \cup Digits \cup {"_"}
WhiteSpace == {" ", "\t", "\n", "\r", "\f"}

InClass(c, class) ==
    CASE class = "[\\w-]" -> c \in WordChars \cup {"-"}
      [] class = "[^\\s]" -> c \notin WhiteSpace

(***************************************************************************)
(* Regular expressions: a pattern is a sequence of nodes                   *)
(*   Lit(s)    the characters s                                            *)
(*   Opt(g)    (?:g)?   greedy                                             *)
(*   Alt(as)   (?:a1|a2|...)   alternatives tried in order                 *)
(*   Plus(c)   c+   greedy, c a character class                            *)
(*   CapS/CapE the parentheses of a capture group                          *)
(***************************************************************************)
Lit(s) == [k |-> "lit", s |-> s]
Opt(g) == [k |-> "opt", g |-> g]
Alt(as) == [k |-> "alt", as |-> as]
Plus(c) == [k |-> "plus", c |-> c]
CapS == [k |-> "capS"]
CapE == [k |-> "capE"]
Cap(g) == <<CapS>> \o g \o <<CapE>>

NoMatch == [ok |-> FALSE]

\* the characters sub stand in t from index i on
Occurs(sub, t, i) ==
    /\ i + Len(sub) <= Len(t)
    /\ SubSeq(t, i + 1, i + Len(sub)) = sub

LitAt(s, t, pos, ic) ==
    /\ pos + Len(s) <= Len(t)
    /\ \A j \in 1..Len(s) : Canonicalize(t[pos + j], ic) = Canonicalize(s[j], ic)

Min(S) == CHOOSE x \in S : \A y \in S : x <= y
Max(S) == CHOOSE x \in S : \A y \in S : x >= y

\* the number of consecutive characters of the class from index pos
RunLength(class, t, pos) ==
    LET stops == {i \in pos..(Len(t) - 1) : ~InClass(t[i + 1], class)}
    IN IF stops = {} THEN Len(t) - pos ELSE Min(stops) - pos

RECURSIVE RxMatch(_, _, _, _, _, _)
RECURSIVE RxAlt(_, _, _, _, _, _, _, _)
RECURSIVE RxPlus(_, _, _, _, _, _, _)

\* Backtracking match of the nodes at index pos of t: the first success in
\* priority order.  caps are the captures closed so far, open the index at
\* which the open capture group started.
RxMatch(nodes, t, pos, ic, caps, open) ==
    IF nodes = <<>> THEN [ok |-> TRUE, end |-> pos, caps |-> caps]
    ELSE LET n == Head(nodes)
             rest == Tail(nodes)
         IN CASE n.k = "lit" ->
                   IF LitAt(n.s, t, pos, ic)
                   THEN RxMatch(rest, t, pos + Len(n.s), ic, caps, open)
                   ELSE NoMatch
              [] n.k = "opt" ->
                   LET with == RxMatch(n.g \o rest, t, pos, ic, caps, open)
                   IN IF with.ok THEN with
                      ELSE RxMatch(rest, t, pos, ic, caps, open)
              [] n.k = "alt" -> RxAlt(n.as, 1, rest, t, pos, ic, caps, open)
              [] n.k = "plus" ->
                   RxPlus(RunLength(n.c, t, pos), rest, t, pos, ic, caps, open)
              [] n.k = "capS" -> RxMatch(rest, t, pos, ic, caps, pos)
              [] n.k = "capE" ->
                   RxMatch(rest, t, pos, ic,
                           Append(caps, SubSeq(t, open + 1, pos)), open)

RxAlt(as, i, rest, t, pos, ic, caps, open) ==
    IF i > Len(as) THEN NoMatch
    ELSE LET r == RxMatch(as[i] \o rest, t, pos, ic, caps, open)
         IN IF r.ok THEN r
            ELSE RxAlt(as, i + 1, rest, t, pos, ic, caps, open)

\* c+ takes the longest run first and gives characters back one at a time
RxPlus(count, rest, t, pos, ic, caps, open) ==
    LET fit == {k \in 1..count : RxMatch(rest, t, pos + k, ic, caps, open).ok}
    IN IF fit = {} THEN NoMatch
       ELSE RxMatch(rest, t, pos + Max(fit), ic, caps, open)

\* The match object: index, the matched substring match[0], the captures
MatchAt(re, t, pos, ic) ==
    LET r == RxMatch(re, t, pos, ic, <<>>, pos)
    IN IF r.ok
       THEN [ok |-> TRUE, index |-> pos, end |-> r.end,
             str |-> SubSeq(t, pos + 1, r.end), caps |-> r.caps]
       ELSE NoMatch

\* RegExpBuiltinExec without the sticky flag: the match at the least index at
\* or after from
Search(re, t, from, ic) ==
    LET hits == {i \in from..Len(t) : MatchAt(re, t, i, ic).ok}
    IN IF hits = {} THEN NoMatch ELSE MatchAt(re, t, Min(hits), ic)

\* url.match(re) for a pattern without the g flag: the first match, from index 0
StringMatch(url, re) == Search(re, url, 0, FALSE)

(***************************************************************************)
(* The platform table                                                      *)
(***************************************************************************)
Platforms == <<"soundcloud", "youtube", "spotify", "bandcamp", "directAudio">>
PlatformSet == {Platforms[i] : i \in 1..Len(Platforms)}

Scheme == Opt(<<Lit(<<"h","t","t","p">>), Opt(<<Lit(<<"s">>)>>), Lit(<<":","/","/">>)>>)

pattern(platform) ==
    CASE platform = "soundcloud" ->
           <<Scheme, Opt(<<Lit(<<"w","w","w",".">>)>>), Lit(<<"s","o","u","n","d","c","l","o","u","d",".","c","o","m","/">>),
             Plus("[\\w-]"), Lit(<<"/">>), Plus("[\\w-]")>>
      [] platform = "youtube" ->
           <<Scheme, Opt(<<Lit(<<"w","w","w",".">>)>>),
             Alt(<< <<Lit(<<"y","o","u","t","u","b","e",".","c","o","m","/","w","a","t","c","h","?","v","=">>)>>, <<Lit(<<"y","o","u","t","u",".","b","e","/">>)>> >>)>>
           \o Cap(<<Plus("[\\w-]")>>)
      [] platform = "spotify" ->
           <<Scheme, Opt(<<Lit(<<"o","p","e","n",".">>)>>), Lit(<<"s","p","o","t","i","f","y",".","c","o","m","/">>)>>
           \o Cap(<<Alt(<< <<Lit(<<"t","r","a","c","k">>)>>, <<Lit(<<"a","l","b","u","m">>)>>,
                           <<Lit(<<"p","l","a","y","l","i","s","t">>)>> >>)>>)
           \o <<Lit(<<"/">>)>> \o Cap(<<Plus("[\\w-]")>>)
      [] platform = "bandcamp" ->
           <<Scheme, Plus("[\\w-]"), Lit(<<".","b","a","n","d","c","a","m","p",".","c","o","m","/">>),
             Alt(<< <<Lit(<<"t","r","a","c","k">>)>>, <<Lit(<<"a","l","b","u","m">>)>> >>), Lit(<<"/">>)>>
           \o Cap(<<Plus("[\\w-]")>>)
      [] platform = "directAudio" ->
           <<Lit(<<"h","t","t","p">>), Opt(<<Lit(<<"s">>)>>), Lit(<<":","/","/">>), Plus("[^\\s]"),
             Lit(<<".">>),
             Alt(<< <<Lit(<<"m","p","3">>)>>, <<Lit(<<"w","a","v">>)>>, <<Lit(<<"o","g","g">>)>>,
                    <<Lit(<<"m","4","a">>)>>, <<Lit(<<"f","l","a","c">>)>> >>)>>

(***************************************************************************)
(* Embed builders.  A fragment of markup is recorded by its element, its    *)
(* src (href for a link), its height and the declared MIME type.  The src  *)
(* is the template literal: the fixed text before the interpolated value,  *)
(* the interpolated characters, the fixed text after.  The empty string '' *)
(* is EmptyFragment.                                                       *)
(***************************************************************************)
Src(pre, arg, post) == [pre |-> pre, arg |-> arg, post |-> post]

EmptyFragment == [tag |-> "", src |-> Src("", <<>>, ""), height |-> "", type |-> ""]

Unreserved == WordChars \cup {"-", ".", "!", "~", "*", "'", "(", ")"}

\* the UTF-8 percent escape of the reserved ASCII characters
PercentEscape(c) ==
    CASE c = ":" -> <<"%","3","A">> [] c = "/" -> <<"%","2","F">> [] c = "?" -> <<"%","3","F">>
      [] c = "=" -> <<"%","3","D">> [] c = "&" -> <<"%","2","6">> [] c = "#" -> <<"%","2","3">>
      [] c = "%" -> <<"%","2","5">> [] c = " " -> <<"%","2","0">> [] c = "+" -> <<"%","2","B">>
      [] c = "," -> <<"%","2","C">> [] c = "@" -> <<"%","4","0">> [] c = "\n" -> <<"%","0","A">>

\* UTF-16 code units that are surrogates, each written by its escape
HighSurrogates == {"\\uD83C", "\\uD83D"}
LowSurrogates == {"\\uDFB5"}

\* a high surrogate not followed by a low one, or a low one not preceded by a
\* high one
LoneSurrogate(s) ==
    \E i \in 1..Len(s) :
        \/ s[i] \in HighSurrogates /\ (i = Len(s) \/ s[i + 1] \notin LowSurrogates)
        \/ s[i] \in LowSurrogates /\ (i = 1 \/ s[i - 1] \notin HighSurrogates)

Returned(value) == [threw |-> FALSE, value |-> value]
Threw(message) == [threw |-> TRUE, message |-> message]

RECURSIVE encodeURIComponent(_)
\* of a string without lone surrogates
encodeURIComponent(s) ==
    IF s = <<>> THEN <<>>
    ELSE (IF Head(s) \in Unreserved THEN <<Head(s)>> ELSE PercentEscape(Head(s)))
         \o encodeURIComponent(Tail(s))

\* encodeURIComponent throws a URIError on a lone surrogate, and the builder
\* does not catch it
createSoundCloudEmbed(url) ==
    IF LoneSurrogate(url) THEN Threw("URI malformed")
    ELSE
    [tag |-> "iframe",
     src |-> Src("https://w.soundcloud.com/player/?url=", encodeURIComponent(url),
                 "&color=%238b5cf6&auto_play=false&hide_related=true&show_comments=false&show_user=true&show_reposts=false&show_teaser=false"),
     height |-> "166", type |-> ""]

YouTubeIdPatterns ==
    << <<Lit(<<"y","o","u","t","u","b","e",".","c","o","m","/","w","a","t","c","h","?","v","=">>)>> \o Cap(<<Plus("[\\w-]")>>),
       <<Lit(<<"y","o","u","t","u",".","b","e","/">>)>> \o Cap(<<Plus("[\\w-]")>>),
       <<Lit(<<"y","o","u","t","u","b","e",".","c","o","m","/","e","m","b","e","d","/">>)>> \o Cap(<<Plus("[\\w-]")>>) >>

RECURSIVE YouTubeVideoId(_, _)
\* the loop over the patterns: the capture of the first one that matches, else ''
YouTubeVideoId(url, i) ==
    IF i > Len(YouTubeIdPatterns) THEN <<>>
    ELSE LET match == StringMatch(url, YouTubeIdPatterns[i])
         IN IF match.ok THEN match.caps[1] ELSE YouTubeVideoId(url, i + 1)

\* variant: the last of the patterns that matches gives the id
createYouTubeEmbedLastShape(url) ==
    LET matched == {k \in 1..Len(YouTubeIdPatterns) :
                       StringMatch(url, YouTubeIdPatterns[k]).ok}
        videoId == IF matched = {} THEN <<>>
                   ELSE StringMatch(url, YouTubeIdPatterns[Max(matched)]).caps[1]
    IN IF videoId = <<>> THEN EmptyFragment
       ELSE [tag |-> "iframe",
             src |-> Src("https://www.youtube.com/embed/", videoId, ""),
             height |-> "315", type |-> ""]

createYouTubeEmbed(url) ==
    LET videoId == YouTubeVideoId(url, 1)
    IN IF videoId = <<>> THEN EmptyFragment
       ELSE [tag |-> "iframe",
             src |-> Src("https://www.youtube.com/embed/", videoId, ""),
             height |-> "315", type |-> ""]

SpotifyEmbedPattern ==
    <<Lit(<<"s","p","o","t","i","f","y",".","c","o","m","/">>)>>
    \o Cap(<<Alt(<< <<Lit(<<"t","r","a","c","k">>)>>, <<Lit(<<"a","l","b","u","m">>)>>, <<Lit(<<"p","l","a","y","l","i","s","t">>)>> >>)>>)
    \o <<Lit(<<"/">>)>> \o Cap(<<Plus("[\\w-]")>>)

\* variant: the height of the track player for every item type
createSpotifyEmbedTrackHeight(url) ==
    LET match == StringMatch(url, SpotifyEmbedPattern)
    IN IF ~match.ok THEN EmptyFragment
       ELSE [tag |-> "iframe",
             src |-> Src("https://open.spotify.com/embed/",
                         match.caps[1] \o <<"/">> \o match.caps[2], "?utm_source=generator"),
             height |-> "152",
             type |-> ""]

createSpotifyEmbed(url) ==
    LET match == StringMatch(url, SpotifyEmbedPattern)
    IN IF ~match.ok THEN EmptyFragment
       ELSE LET type == match.caps[1]
                id == match.caps[2]
            IN [tag |-> "iframe",
                src |-> Src("https://open.spotify.com/embed/",
                            type \o <<"/">> \o id, "?utm_source=generator"),
                height |-> IF type = <<"t","r","a","c","k">> THEN "152" ELSE "380",
                type |-> ""]

createBandcampEmbed(url) ==
    [tag |-> "a", src |-> Src("", url, ""), height |-> "", type |-> ""]

createDirectAudioEmbed(url) ==
    [tag |-> "audio", src |-> Src("", url, ""), height |-> "", type |-> "audio/mpeg"]

embed(platform, url) ==
    CASE platform = "soundcloud" -> createSoundCloudEmbed(url)
      [] platform = "youtube" -> createYouTubeEmbed(url)
      [] platform = "spotify" -> createSpotifyEmbed(url)
      [] platform = "bandcamp" -> createBandcampEmbed(url)
      [] platform = "directAudio" -> createDirectAudioEmbed(url)


(***************************************************************************)
(* Inputs: texts written with known URL occurrences                        *)
(***************************************************************************)
Link(platform, url) == [platform |-> platform, url |-> url]

scLink == Link("soundcloud", <<"h","t","t","p","s",":","/","/","s","o","u","n","d","c","l","o","u","d",".","c","o","m","/","d","j","/","s","e","t">>)
ytWatchLink == Link("youtube", <<"h","t","t","p","s",":","/","/","w","w","w",".","y","o","u","t","u","b","e",".","c","o","m","/","w","a","t","c","h","?","v","=","a","-","1">>)
ytShortLink == Link("youtube", <<"h","t","t","p","s",":","/","/","y","o","u","t","u",".","b","e","/","d","Q","w","4","w","9","W","g","X","c","Q">>)
ytEmbedLink == Link("youtube", <<"h","t","t","p","s",":","/","/","w","w","w",".","y","o","u","t","u","b","e",".","c","o","m","/","e","m","b","e","d","/","a","-","1">>)
spTrackLink == Link("spotify", <<"h","t","t","p","s",":","/","/","o","p","e","n",".","s","p","o","t","i","f","y",".","c","o","m","/","t","r","a","c","k","/","a","b","c","1","2","3">>)
spAlbumLink == Link("spotify", <<"h","t","t","p","s",":","/","/","o","p","e","n",".","s","p","o","t","i","f","y",".","c","o","m","/","a","l","b","u","m","/","x","9">>)
spUpperLink == Link("spotify", <<"h","t","t","p","s",":","/","/","o","p","e","n",".","S","p","o","t","i","f","y",".","c","o","m","/","t","r","a","c","k","/","a","b","c","1","2","3">>)
spPlaylistLink == Link("spotify", <<"h","t","t","p","s",":","/","/","o","p","e","n",".","s","p","o","t","i","f","y",".","c","o","m","/","p","l","a","y","l","i","s","t","/","p","_","7">>)
ytUpperLink == Link("youtube", <<"h","t","t","p","s",":","/","/","w","w","w",".","Y","o","u","T","u","b","e",".","c","o","m","/","w","a","t","c","h","?","v","=","a","-","1">>)
bcLink == Link("bandcamp", <<"h","t","t","p","s",":","/","/","b","a","n","d",".","b","a","n","d","c","a","m","p",".","c","o","m","/","a","l","b","u","m","/","l","p">>)
mp3Link == Link("directAudio", <<"h","t","t","p","s",":","/","/","c","d","n",".","i","o","/","a",".","m","p","3">>)

\* URLs of the supported shapes, one platform each
SupportedLinks ==
    {scLink, ytWatchLink, ytShortLink, ytEmbedLink, spTrackLink, spAlbumLink,
     spUpperLink, spPlaylistLink, ytUpperLink, bcLink, mp3Link}

\* a SoundCloud URL that ends in an audio file extension
scMp3Link == Link("soundcloud", <<"h","t","t","p","s",":","/","/","s","o","u","n","d","c","l","o","u","d",".","c","o","m","/","d","j","/","s","e","t",".","m","p","3">>)

PairLinks == {scLink, ytShortLink, spTrackLink, spAlbumLink, bcLink, mp3Link}

Input(ls, t) == [links |-> ls, text |-> t]

Inputs ==
    {Input(<<>>, <<"n","o"," ","l","i","n","k","s"," ","h","e","r","e">>)}
    \cup {Input(<<l>>, l.url) : l \in SupportedLinks \cup {scMp3Link}}
    \cup {Input(<<ytShortLink>>, <<"c","h","e","c","k"," ","t","h","i","s"," ">> \o ytShortLink.url \o <<" ","o","u","t">>)}
    \cup {Input(<<a, b>>, a.url \o <<" ">> \o b.url) : a, b \in PairLinks}
    \cup {Input(<<spAlbumLink, scLink, spTrackLink>>,
                 spAlbumLink.url \o <<"\n">> \o scLink.url \o <<" ","a","n","d"," ">> \o spTrackLink.url)}

InputTexts == {in.text : in \in Inputs}

\* s repeated n times
Repeat(s, n) == [i \in 1..(n * Len(s)) |-> s[((i - 1) % Len(s)) + 1]]

\* Post bodies: line breaks and markup characters, one URL twice, one URL a
\* prefix of another, a URL inside another, a URL whose removal joins its
\* surroundings into a URL, and bodies around the maximum display length
brText == <<"o","n","e","\n","t","w","o">>
markupText == <<"<","b",">","Q","&","A","<","/","b",">">>
twiceText == scLink.url \o <<" ","a","n","d"," ">> \o scLink.url
prefixText == <<"h","t","t","p","s",":","/","/","y","o","u","t","u",".","b","e","/","a","b"," ","t","h","e","n"," ","h","t","t","p","s",":","/","/","y","o","u","t","u",".","b","e","/","a","b","c">>
prefixAfterText == <<"h","t","t","p","s",":","/","/","y","o","u","t","u",".","b","e","/","a","b","c"," ","t","h","e","n"," ","h","t","t","p","s",":","/","/","y","o","u","t","u",".","b","e","/","a","b">>
joinText == <<"h","t","t","p","s",":","/","/","c","d","n",".","i","o","/","a">> \o scLink.url \o <<".","m","p","3"," ","h","t","t","p","s",":","/","/","c","d","n",".","i","o","/","a",".","m","p","3">>
exactText == Repeat(<<"0","1","2","3","4","5","6","7","8","9">>, 30)
longText == Repeat(<<"0","1","2","3","4","5","6","7","8","9">>, 31)
longBrText == Repeat(<<"0","1","2","3","4","5","6","7","8","9">>, 29) \o <<"0","1","2","3","4","5","6","7","\n">> \o Repeat(<<"a","b">>, 10)
longLinkText == Repeat(<<"0","1","2","3","4","5","6","7","8","9">>, 30) \o <<" ">> \o ytShortLink.url

FormatTexts ==
    InputTexts
    \cup {<<>>, brText, markupText, twiceText, prefixText, prefixAfterText, joinText,
          exactText, longText, longBrText, longLinkText}

\* The platform patterns tried at every index of every input text, the search
\* from every index, and the embed of every matched substring: computed once
AnchorMemo ==
    [t \in FormatTexts |->
        [p \in PlatformSet |->
            [i \in 0..Len(t) |-> MatchAt(pattern(p), t, i, TRUE)]]]

ExecMemo ==
    [t \in FormatTexts |->
        [p \in PlatformSet |->
            LET anchored == AnchorMemo[t][p]
                matching == {i \in 0..Len(t) : anchored[i].ok}
            IN [from \in 0..Len(t) |->
                   LET hits == {i \in matching : i >= from}
                   IN IF hits = {} THEN NoMatch ELSE anchored[Min(hits)]]]]

MatchedStrings(p) ==
    UNION {{AnchorMemo[t][p][i].str : i \in {j \in 0..Len(t) : AnchorMemo[t][p][j].ok}} :
           t \in FormatTexts}

EmbedMemo ==
    [p \in PlatformSet |-> [u \in MatchedStrings(p) |-> embed(p, u)]]
(***************************************************************************)
(* AudioParser methods.  li is the lastIndex of the pattern objects when   *)
(* the method is called.                                                   *)
(***************************************************************************)
\* pattern.exec for the platform's /gi pattern at lastIndex from
exec(platform, t, from) ==
    IF from > Len(t) THEN NoMatch ELSE ExecMemo[t][platform][from]

RECURSIVE matchAll(_, _, _)
\* String.prototype.matchAll: the iterator runs on a copy of the pattern that
\* starts at the lastIndex of the original and leaves the original untouched
matchAll(t, platform, from) ==
    LET m == exec(platform, t, from)
    IN IF ~m.ok THEN <<>>
       ELSE <<m>> \o matchAll(t, platform,
                              IF m.end = m.index THEN m.end + 1 ELSE m.end)

AudioOf(platform, ms) ==
    [i \in 1..Len(ms) |->
        [platform |-> platform, url |-> ms[i].str,
         embedHtml |-> EmbedMemo[platform][ms[i].str]]]

RECURSIVE parseFrom(_, _, _)
parseFrom(i, t, li) ==
    IF i > Len(Platforms) THEN <<>>
    ELSE AudioOf(Platforms[i], matchAll(t, Platforms[i], li[Platforms[i]]))
         \o parseFrom(i + 1, t, li)

Rank(platform) == CHOOSE i \in 1..Len(Platforms) : Platforms[i] = platform

\* the matches of every platform, in table order, each with its platform
Tagged(platform, ms) ==
    [i \in 1..Len(ms) |-> [platform |-> platform, m |-> ms[i]]]

AllTagged(t, li) ==
    Tagged(Platforms[1], matchAll(t, Platforms[1], li[Platforms[1]]))
    \o Tagged(Platforms[2], matchAll(t, Platforms[2], li[Platforms[2]]))
    \o Tagged(Platforms[3], matchAll(t, Platforms[3], li[Platforms[3]]))
    \o Tagged(Platforms[4], matchAll(t, Platforms[4], li[Platforms[4]]))
    \o Tagged(Platforms[5], matchAll(t, Platforms[5], li[Platforms[5]]))

AudioOfTagged(ts) ==
    [i \in 1..Len(ts) |->
        [platform |-> ts[i].platform, url |-> ts[i].m.str,
         embedHtml |-> EmbedMemo[ts[i].platform][ts[i].m.str]]]

Overlap(m, n) == m.index < n.end /\ n.index < m.end

\* variant: the matches re-sorted by their index in the text
parseTextByPosition(t, li) ==
    AudioOfTagged(SortSeq(AllTagged(t, li), LAMBDA a, b : a.m.index < b.m.index))

\* variant: a match that overlaps a match of an earlier platform is dropped
parseTextDedup(t, li) ==
    LET all == AllTagged(t, li)
        Kept(e) == \A j \in 1..Len(all) :
                      Rank(all[j].platform) < Rank(e.platform) => ~Overlap(all[j].m, e.m)
    IN AudioOfTagged(SelectSeq(all, Kept))

parseText(t, li) == parseFrom(1, t, li)

Null == [platform |-> "", url |-> <<>>, embedHtml |-> EmptyFragment]

\* variant: the last element instead of the first
getFirstAudioLast(t, li) ==
    LET allAudio == parseText(t, li)
    IN IF Len(allAudio) > 0 THEN allAudio[Len(allAudio)] ELSE Null

getFirstAudio(t, li) ==
    LET allAudio == parseText(t, li)
    IN IF Len(allAudio) > 0 THEN allAudio[1] ELSE Null

\* RegExp.prototype.test on a pattern with the g flag: searches from lastIndex,
\* leaves lastIndex at the end of the match, or at 0 when there is none
test(platform, t, from) ==
    LET m == exec(platform, t, from)
    IN [found |-> m.ok, lastIndex |-> IF m.ok THEN m.end ELSE 0]

RECURSIVE hasFrom(_, _, _)
\* the loop of hasAudioUrls from the i-th platform: the value returned and
\* the lastIndex of every pattern afterwards
hasFrom(i, t, li) ==
    IF i > Len(Platforms) THEN [value |-> FALSE, lastIndex |-> li]
    ELSE LET p == Platforms[i]
             r == test(p, t, li[p])
             li2 == [li EXCEPT ![p] = r.lastIndex]
         IN IF r.found THEN [value |-> TRUE, lastIndex |-> li2]
            ELSE hasFrom(i + 1, t, li2)

hasAudioUrls(t, li) == hasFrom(1, t, li)
(***************************************************************************)
(* One AudioParser instance, its methods called in any order               *)
(***************************************************************************)
\* the number of calls made on the instance in one behaviour
MaxCalls == 3

FreshIndex == [p \in PlatformSet |-> 0]

ParserInit ==
    /\ lastIndex = FreshIndex
    /\ calls = 0
    /\ op = "none"
    /\ text = <<>>
    /\ links = <<>>
    /\ result = <<>>

CallParseText ==
    \E in \in Inputs :
        /\ calls < MaxCalls
        /\ calls' = calls + 1
        /\ op' = "parseText"
        /\ text' = in.text
        /\ links' = in.links
        /\ result' = parseText(in.text, lastIndex)
        /\ UNCHANGED <<lastIndex, appVars>>

CallGetFirstAudio ==
    \E in \in Inputs :
        /\ calls < MaxCalls
        /\ calls' = calls + 1
        /\ op' = "getFirstAudio"
        /\ text' = in.text
        /\ links' = in.links
        /\ result' = getFirstAudio(in.text, lastIndex)
        /\ UNCHANGED <<lastIndex, appVars>>

CallHasAudioUrls ==
    \E in \in Inputs :
        LET r == hasAudioUrls(in.text, lastIndex)
        IN /\ calls < MaxCalls
           /\ calls' = calls + 1
           /\ op' = "hasAudioUrls"
           /\ text' = in.text
           /\ links' = in.links
           /\ result' = r.value
           /\ lastIndex' = r.lastIndex
           /\ UNCHANGED appVars



(***************************************************************************)
(* GitHubAPI: the responses of the GraphQL endpoint and what               *)
(* fetchDiscussions makes of them                                          *)
(***************************************************************************)
NoAuthor == [login |-> <<>>]

Node(id, title, body, author) ==
    [id |-> id, title |-> title, body |-> body, author |-> author]

node1 == Node(1, <<"J","a","z","z">>, <<"l","a","t","e"," ","s","e","t">>, [login |-> <<"a","n","a">>])
node2 == Node(2, <<"R","o","c","k">>, <<"h","t","t","p","s",":","/","/","y","o","u","t","u",".","b","e","/","d","Q","w","4","w","9","W","g","X","c","Q">>, NoAuthor)
\* a null element of the nodes list
NullNode == Node(0, <<>>, <<>>, NoAuthor)

NoResponse == [kind |-> "none"]
Ok(nodes) == [kind |-> "ok", nodes |-> nodes]
Rejected == [kind |-> "rejected"]
HttpError(status) == [kind |-> "http", status |-> status]
GraphQLErrors(errors) == [kind |-> "graphql", errors |-> errors]

Responses ==
    {Ok(<<>>), Ok(<<node1>>), Ok(<<node2, node1>>), Ok(<<node1, NullNode>>),
     Rejected, HttpError("500"),
     GraphQLErrors(<<"API rate limit exceeded", "Something went wrong">>)}

\* fetch rejects, or the response is not ok, or its JSON body is returned
makeGraphQLRequest(response) ==
    CASE response.kind = "rejected" -> Threw("Failed to fetch")
      [] response.kind = "http" ->
           Threw("HTTP error! status: " \o response.status)
      [] OTHER -> Returned(response)

\* variant: the errors of the response are not looked at, and reading
\* response.data.repository of the error response throws
fetchDiscussionsNoErrorsCheck(response) ==
    LET r == makeGraphQLRequest(response)
    IN IF r.threw THEN r
       ELSE IF r.value.kind = "graphql"
            THEN Threw("Cannot read properties of null (reading 'repository')")
       ELSE Returned(r.value.nodes)

fetchDiscussions(response) ==
    LET r == makeGraphQLRequest(response)
    IN IF r.threw THEN r
       ELSE IF r.value.kind = "graphql" THEN Threw(r.value.errors[1])
       ELSE Returned(r.value.nodes)

formatDiscussion(discussion) ==
    [id |-> discussion.id,
     title |-> discussion.title,
     body |-> discussion.body,
     author |-> [username |-> IF discussion.author = NoAuthor
                              THEN <<"U","n","k","n","o","w","n">> ELSE discussion.author.login]]

\* discussions.map(d => formatDiscussion(d)): reading a property of a null
\* element throws a TypeError
FormatAll(nodes) ==
    IF \E i \in 1..Len(nodes) : nodes[i] = NullNode
    THEN Threw("Cannot read properties of null (reading 'id')")
    ELSE Returned([i \in 1..Len(nodes) |-> formatDiscussion(nodes[i])])

(***************************************************************************)
(* MusicHub: the feed                                                      *)
(***************************************************************************)
View(kind, cards, message) == [kind |-> kind, cards |-> cards, message |-> message]

\* showLoading, showEmptyState, showError (with its retry button), and the
\* cards appended by renderDiscussions, one per discussion, named by its id
LoadingView == View("loading", <<>>, "")
EmptyView == View("empty", <<>>, "")
ErrorView(message) == View("error", <<>>, message)
CardsView(list) == View("cards", [i \in 1..Len(list) |-> list[i].id], "")

\* renderDiscussions: the view, and the number of loadLastComment calls it makes
renderDiscussions(list) ==
    IF Len(list) = 0
    THEN [view |-> EmptyView, lastComments |-> 0]
    ELSE [view |-> CardsView(list), lastComments |-> 1]

\* String.prototype.trim
trim(s) ==
    LET keep == {i \in 1..Len(s) : s[i] \notin WhiteSpace}
    IN IF keep = {} THEN <<>> ELSE SubSeq(s, Min(keep), Max(keep))

LowerCase(s) ==
    [i \in 1..Len(s) |-> IF s[i] \in UpperLetters THEN toLowerCase[s[i]] ELSE s[i]]

includes(s, sub) == \E i \in 0..Len(s) : Occurs(sub, s, i)

\* the filter of handleSearch
SearchFilter(list, q) ==
    LET Hit(d) ==
            includes(LowerCase(d.title \o <<" ">> \o d.body \o <<" ">> \o d.author.username),
                     LowerCase(q))
    IN SelectSeq(list, Hit)

\* the list handleSearch renders
Searched(list, q) ==
    IF trim(q) = <<>> THEN list ELSE SearchFilter(list, q)

Queries == {<<" ">>, <<"J","A","Z","Z">>, <<"m","e","t","a","l">>}

\* the last-comment fetches in flight at one time in a behaviour
MaxLastComment == 2
\* the interval timers created in a behaviour
MaxTimers == 2

Event(name, dropped, response) ==
    [name |-> name, dropped |-> dropped, response |-> response]

\* The constructor has run init up to its first await: loadDiscussions has set
\* isLoading, shown the spinner and issued its request.
AppInit ==
    /\ enableAutoRefresh \in BOOLEAN
    /\ initPc = "loadDiscussions"
    /\ isLoading = TRUE
    /\ discussions = <<>>
    /\ feedInFlight = 1
    /\ lastCommentInFlight = 0
    /\ feed = LoadingView
    /\ lastCommentView = "blank"
    /\ query = <<>>
    /\ autoRefreshTimer = 0
    /\ activeTimers = {}
    /\ timersCreated = 0
    /\ event = Event("init", FALSE, NoResponse)

\* variant: no isLoading guard
loadDiscussionsNoGuard ==
    /\ feedInFlight < 3
    /\ isLoading' = TRUE
    /\ feed' = LoadingView
    /\ feedInFlight' = feedInFlight + 1

\* variant: the spinner is shown before the guard is tested
loadDiscussionsSpinnerFirst ==
    /\ feed' = LoadingView
    /\ IF isLoading
       THEN UNCHANGED <<isLoading, feedInFlight>>
       ELSE /\ isLoading' = TRUE
            /\ feedInFlight' = feedInFlight + 1

\* loadDiscussions up to its await
loadDiscussions ==
    IF isLoading
    THEN UNCHANGED <<isLoading, feed, feedInFlight>>
    ELSE /\ isLoading' = TRUE
         /\ feed' = LoadingView
         /\ feedInFlight' = feedInFlight + 1

\* loadLastComment, n times, up to the await of fetchLastComment
loadLastComment(n) ==
    /\ lastCommentInFlight + n <= MaxLastComment
    /\ lastCommentInFlight' = lastCommentInFlight + n

\* variant: the stored timer is not cleared before the new one is created
startAutoRefreshNoClear ==
    /\ timersCreated < MaxTimers
    /\ timersCreated' = timersCreated + 1
    /\ autoRefreshTimer' = timersCreated + 1
    /\ activeTimers' = activeTimers \cup {timersCreated + 1}

startAutoRefresh ==
    /\ timersCreated < MaxTimers
    /\ timersCreated' = timersCreated + 1
    /\ autoRefreshTimer' = timersCreated + 1
    /\ activeTimers' = (activeTimers \ {autoRefreshTimer}) \cup {timersCreated + 1}

stopAutoRefresh ==
    IF autoRefreshTimer # 0
    THEN /\ activeTimers' = activeTimers \ {autoRefreshTimer}
         /\ autoRefreshTimer' = 0
         /\ UNCHANGED timersCreated
    ELSE UNCHANGED <<autoRefreshTimer, activeTimers, timersCreated>>

timerVars == <<autoRefreshTimer, activeTimers, timersCreated>>

\* the click listener of #refresh-btn
RefreshClick ==
    /\ event' = Event("click", isLoading, NoResponse)
    /\ loadDiscussions
    /\ loadLastComment(1)
    /\ UNCHANGED <<enableAutoRefresh, initPc, discussions, lastCommentView,
                   query, timerVars, parserVars>>

\* the onclick of the retry button of the error state
RetryClick ==
    /\ feed.kind = "error"
    /\ event' = Event("retry", isLoading, NoResponse)
    /\ loadDiscussions
    /\ UNCHANGED <<enableAutoRefresh, initPc, discussions, lastCommentInFlight,
                   lastCommentView, query, timerVars, parserVars>>

\* the callback of the interval timer
AutoRefreshTick ==
    /\ activeTimers # {}
    /\ event' = Event("tick", isLoading, NoResponse)
    /\ loadDiscussions
    /\ UNCHANGED <<enableAutoRefresh, initPc, discussions, lastCommentInFlight,
                   lastCommentView, query, timerVars, parserVars>>

\* the input listener of #search-input
SearchInput ==
    \E q \in Queries :
        LET r == renderDiscussions(Searched(discussions, q))
        IN /\ event' = Event("search", FALSE, NoResponse)
           /\ query' = q
           /\ feed' = r.view
           /\ loadLastComment(r.lastComments)
           /\ UNCHANGED <<enableAutoRefresh, initPc, isLoading, discussions,
                          feedInFlight, lastCommentView, timerVars, parserVars>>

\* variant: isLoading is reset at the end of the try block, not in a finally
FeedSettledNoFinally ==
    \E response \in Responses :
        LET fetched == fetchDiscussions(response)
            formatted == IF fetched.threw THEN fetched ELSE FormatAll(fetched.value)
            r == renderDiscussions(formatted.value)
            resumesInit == initPc = "loadDiscussions"
        IN /\ feedInFlight > 0
           /\ event' = Event("feedSettled", FALSE, response)
           /\ feedInFlight' = feedInFlight - 1
           /\ isLoading' = (formatted.threw /\ isLoading)
           /\ IF formatted.threw
              THEN /\ feed' = ErrorView(formatted.message)
                   /\ UNCHANGED discussions
                   /\ loadLastComment(IF resumesInit THEN 1 ELSE 0)
              ELSE /\ discussions' = formatted.value
                   /\ feed' = r.view
                   /\ loadLastComment(r.lastComments + IF resumesInit THEN 1 ELSE 0)
           /\ initPc' = IF resumesInit THEN "loadLastComment" ELSE initPc
           /\ UNCHANGED <<enableAutoRefresh, lastCommentView, query, timerVars,
                          parserVars>>

\* variant: a failed load empties the stored list
FeedSettledClearsOnFailure ==
    \E response \in Responses :
        LET fetched == fetchDiscussions(response)
            formatted == IF fetched.threw THEN fetched ELSE FormatAll(fetched.value)
            r == renderDiscussions(formatted.value)
            resumesInit == initPc = "loadDiscussions"
        IN /\ feedInFlight > 0
           /\ event' = Event("feedSettled", FALSE, response)
           /\ feedInFlight' = feedInFlight - 1
           /\ isLoading' = FALSE
           /\ IF formatted.threw
              THEN /\ feed' = ErrorView(formatted.message)
                   /\ discussions' = <<>>
                   /\ loadLastComment(IF resumesInit THEN 1 ELSE 0)
              ELSE /\ discussions' = formatted.value
                   /\ feed' = r.view
                   /\ loadLastComment(r.lastComments + IF resumesInit THEN 1 ELSE 0)
           /\ initPc' = IF resumesInit THEN "loadLastComment" ELSE initPc
           /\ UNCHANGED <<enableAutoRefresh, lastCommentView, query, timerVars,
                          parserVars>>

\* The request of loadDiscussions settles: the rest of loadDiscussions runs,
\* and then init, when it awaits this call, goes on to its loadLastComment.
FeedSettled ==
    \E response \in Responses :
        LET fetched == fetchDiscussions(response)
            formatted == IF fetched.threw THEN fetched ELSE FormatAll(fetched.value)
            r == renderDiscussions(formatted.value)
            resumesInit == initPc = "loadDiscussions"
        IN /\ feedInFlight > 0
           /\ event' = Event("feedSettled", FALSE, response)
           /\ feedInFlight' = feedInFlight - 1
           /\ isLoading' = FALSE
           /\ IF formatted.threw
              THEN /\ feed' = ErrorView(formatted.message)
                   /\ UNCHANGED discussions
                   /\ loadLastComment(IF resumesInit THEN 1 ELSE 0)
              ELSE /\ discussions' = formatted.value
                   /\ feed' = r.view
                   /\ loadLastComment(r.lastComments + IF resumesInit THEN 1 ELSE 0)
           /\ initPc' = IF resumesInit THEN "loadLastComment" ELSE initPc
           /\ UNCHANGED <<enableAutoRefresh, lastCommentView, query, timerVars,
                          parserVars>>

LastCommentOutcomes == {"comment", "none", "error"}

\* A request of fetchLastComment settles and LastComment.render runs; when it
\* is the one init awaits, init goes on to its end.
LastCommentSettled ==
    \E outcome \in LastCommentOutcomes, ofInit \in BOOLEAN :
        /\ lastCommentInFlight > 0
        /\ ofInit => initPc = "loadLastComment"
        /\ ~ofInit => lastCommentInFlight > (IF initPc = "loadLastComment" THEN 1 ELSE 0)
        /\ event' = Event("lastCommentSettled", FALSE, NoResponse)
        /\ lastCommentInFlight' = lastCommentInFlight - 1
        /\ lastCommentView' = outcome
        /\ initPc' = IF ofInit THEN "done" ELSE initPc
        /\ IF ofInit /\ enableAutoRefresh
           THEN startAutoRefresh
           ELSE UNCHANGED timerVars
        /\ UNCHANGED <<enableAutoRefresh, isLoading, discussions, feedInFlight,
                       feed, query, parserVars>>

\* app.startAutoRefresh() and app.stopAutoRefresh() called from outside
StartAutoRefresh ==
    /\ event' = Event("start", FALSE, NoResponse)
    /\ startAutoRefresh
    /\ UNCHANGED <<enableAutoRefresh, initPc, isLoading, discussions, feedInFlight,
                   lastCommentInFlight, feed, lastCommentView, query, parserVars>>

StopAutoRefresh ==
    /\ event' = Event("stop", FALSE, NoResponse)
    /\ stopAutoRefresh
    /\ UNCHANGED <<enableAutoRefresh, initPc, isLoading, discussions, feedInFlight,
                   lastCommentInFlight, feed, lastCommentView, query, parserVars>>

Next ==
    \/ RefreshClick
    \/ RetryClick
    \/ AutoRefreshTick
    \/ SearchInput
    \/ FeedSettled
    \/ LastCommentSettled
    \/ StartAutoRefresh
    \/ StopAutoRefresh

(***************************************************************************)
(* The specifications: the application, whose AudioParser instance is only *)
(* read by the cards it renders, and one AudioParser instance on its own   *)
(***************************************************************************)
Init == AppInit /\ ParserInit

Spec == Init /\ [][Next]_vars

InitParser == ParserInit /\ AppInit /\ enableAutoRefresh = FALSE

NextParser == CallParseText \/ CallGetFirstAudio \/ CallHasAudioUrls

SpecParser == InitParser /\ [][NextParser]_vars

\* Every request that is in flight gets its response or fails: the step that
\* settles a feed fetch is taken when it is enabled again and again (the
\* bound on last-comment fetches can disable it for a while), and the steps
\* that settle last-comment fetches are taken when they stay enabled.
SpecLive ==
    Init /\ [][Next]_vars /\ SF_vars(FeedSettled) /\ WF_vars(LastCommentSettled)

(***************************************************************************)
(* The embed builders called on their own, on any URL string               *)
(***************************************************************************)
\* URL strings without an extractable id, of an unsupported item type, with
\* two YouTube shapes in one, with a lone surrogate, and the empty string
ytNoIdUrl == <<"h","t","t","p","s",":","/","/","w","w","w",".","y","o","u","t","u","b","e",".","c","o","m","/","p","l","a","y","l","i","s","t","?","l","i","s","t","=","P","L","1">>
ytBareUrl == <<"h","t","t","p","s",":","/","/","y","o","u","t","u",".","b","e","/">>
ytShortThenWatchUrl == <<"h","t","t","p","s",":","/","/","y","o","u","t","u",".","b","e","/","s","-","2","?","u","=","y","o","u","t","u","b","e",".","c","o","m","/","w","a","t","c","h","?","v","=","w","_","1">>
ytEmbedThenShortUrl == <<"h","t","t","p","s",":","/","/","w","w","w",".","y","o","u","t","u","b","e",".","c","o","m","/","e","m","b","e","d","/","e","3","?","r","=","y","o","u","t","u",".","b","e","/","s","-","2">>
spArtistUrl == <<"h","t","t","p","s",":","/","/","o","p","e","n",".","s","p","o","t","i","f","y",".","c","o","m","/","a","r","t","i","s","t","/","a","1">>
spTwoTypesUrl == <<"h","t","t","p","s",":","/","/","o","p","e","n",".","s","p","o","t","i","f","y",".","c","o","m","/","a","l","b","u","m","/","x","9","?","p","l","a","y","=","s","p","o","t","i","f","y",".","c","o","m","/","t","r","a","c","k","/","t","1">>
scSurrogateUrl == <<"h","t","t","p","s",":","/","/","s","o","u","n","d","c","l","o","u","d",".","c","o","m","/","d","j","/">> \o <<"\\uD83C">>

BuilderUrls ==
    {l.url : l \in SupportedLinks}
    \cup {ytNoIdUrl, ytBareUrl, ytShortThenWatchUrl, ytEmbedThenShortUrl,
          spArtistUrl, spTwoTypesUrl, scSurrogateUrl, <<>>}

CallCreateSoundCloudEmbed ==
    \E url \in BuilderUrls :
        /\ calls < MaxCalls
        /\ calls' = calls + 1
        /\ op' = "createSoundCloudEmbed"
        /\ text' = url
        /\ links' = <<>>
        /\ result' = createSoundCloudEmbed(url)
        /\ UNCHANGED <<lastIndex, appVars>>

CallCreateYouTubeEmbed ==
    \E url \in BuilderUrls :
        /\ calls < MaxCalls
        /\ calls' = calls + 1
        /\ op' = "createYouTubeEmbed"
        /\ text' = url
        /\ links' = <<>>
        /\ result' = createYouTubeEmbed(url)
        /\ UNCHANGED <<lastIndex, appVars>>

CallCreateSpotifyEmbed ==
    \E url \in BuilderUrls :
        /\ calls < MaxCalls
        /\ calls' = calls + 1
        /\ op' = "createSpotifyEmbed"
        /\ text' = url
        /\ links' = <<>>
        /\ result' = createSpotifyEmbed(url)
        /\ UNCHANGED <<lastIndex, appVars>>

CallCreateBandcampEmbed ==
    \E url \in BuilderUrls :
        /\ calls < MaxCalls
        /\ calls' = calls + 1
        /\ op' = "createBandcampEmbed"
        /\ text' = url
        /\ links' = <<>>
        /\ result' = createBandcampEmbed(url)
        /\ UNCHANGED <<lastIndex, appVars>>

CallCreateDirectAudioEmbed ==
    \E url \in BuilderUrls :
        /\ calls < MaxCalls
        /\ calls' = calls + 1
        /\ op' = "createDirectAudioEmbed"
        /\ text' = url
        /\ links' = <<>>
        /\ result' = createDirectAudioEmbed(url)
        /\ UNCHANGED <<lastIndex, appVars>>

NextBuilders ==
    \/ CallCreateSoundCloudEmbed
    \/ CallCreateYouTubeEmbed
    \/ CallCreateSpotifyEmbed
    \/ CallCreateBandcampEmbed
    \/ CallCreateDirectAudioEmbed

SpecBuilders == InitParser /\ [][NextBuilders]_vars

(***************************************************************************)
(* MusicHub.formatPostText and MusicHub.escapeHtml                         *)
(***************************************************************************)
\* String.prototype.replace with a string pattern and '' as replacement: the
\* first occurrence is removed
replaceFirst(s, sub) ==
    LET at == {i \in 0..Len(s) : Occurs(sub, s, i)}
    IN IF at = {} THEN s
       ELSE SubSeq(s, 1, Min(at)) \o SubSeq(s, Min(at) + Len(sub) + 1, Len(s))

RECURSIVE removeUrls(_, _)
\* audioUrls.forEach(audio => formattedText = formattedText.replace(audio.url, ''))
removeUrls(formattedText, audioUrls) ==
    IF audioUrls = <<>> THEN formattedText
    ELSE removeUrls(replaceFirst(formattedText, Head(audioUrls).url), Tail(audioUrls))

RECURSIVE ReplaceAll(_, _)
\* every character of s that is in the domain of map replaced by its image
ReplaceAll(s, map) ==
    IF Len(s) = 0 THEN <<>>
    ELSE IF Len(s) = 1
         THEN (IF s[1] \in DOMAIN map THEN map[s[1]] ELSE s)
    ELSE LET half == Len(s) \div 2
         IN ReplaceAll(SubSeq(s, 1, half), map)
            \o ReplaceAll(SubSeq(s, half + 1, Len(s)), map)

\* div.textContent = text; div.innerHTML: the serialisation of a text node
escapeHtml(s) ==
    ReplaceAll(s, [c \in {"&", "<", ">"} |->
                      CASE c = "&" -> <<"&","a","m","p",";">> [] c = "<" -> <<"&","l","t",";">> [] c = ">" -> <<"&","g","t",";">>])

maxLength == 300

formatPostText(t, li) ==
    IF t = <<>> THEN <<>>
    ELSE LET stripped == removeUrls(t, parseText(t, li))
             broken == ReplaceAll(stripped, [c \in {"\n"} |-> <<"<","b","r",">">>])
             limited == IF Len(broken) > maxLength
                        THEN SubSeq(broken, 1, maxLength) \o <<".",".",".">>
                        ELSE broken
         IN escapeHtml(limited)

\* the body of a card, the title of a card, the message of the error state
CallFormatPostText ==
    \E t \in FormatTexts :
        /\ calls < MaxCalls
        /\ calls' = calls + 1
        /\ op' = "formatPostText"
        /\ text' = t
        /\ links' = <<>>
        /\ result' = formatPostText(t, lastIndex)
        /\ UNCHANGED <<lastIndex, appVars>>

CallEscapeHtml ==
    \E t \in FormatTexts :
        /\ calls < MaxCalls
        /\ calls' = calls + 1
        /\ op' = "escapeHtml"
        /\ text' = t
        /\ links' = <<>>
        /\ result' = escapeHtml(t)
        /\ UNCHANGED <<lastIndex, appVars>>

NextFormat == CallFormatPostText \/ CallEscapeHtml

SpecFormat == InitParser /\ [][NextFormat]_vars

(***************************************************************************)
(* Properties of the AudioParser                                           *)
(***************************************************************************)
FirstOccurrence(sub, t) == Min({i \in 0..Len(t) : Occurs(sub, t, i)})

PlatformUrl(a) == [platform |-> a.platform, url |-> a.url]

Count(s, x) == Cardinality({i \in 1..Len(s) : s[i] = x})

\* C3: parseText is a pure function of the text: on an instance that has served
\* any earlier calls it returns what a first call on a fresh instance returns.
C3_ParseTextPure ==
    op = "parseText" => result = parseText(text, FreshIndex)

\* C4: hasAudioUrls(text) is true exactly when some platform pattern matches
\* in the text, i.e. when parseText on a fresh instance is non-empty, on every
\* call.
C4_HasAudioUrlsExact ==
    op = "hasAudioUrls" => (result <=> parseText(text, FreshIndex) # <<>>)

\* C5: for a text written with supported platform URLs separated by other
\* text, parseText returns exactly one match per URL occurrence, with that
\* URL's platform and the URL itself as url.
C5_OneMatchPerOccurrence ==
    (/\ op = "parseText"
     /\ lastIndex = FreshIndex
     /\ \A i \in 1..Len(links) : links[i] \in SupportedLinks)
    => /\ Len(result) = Len(links)
       /\ \A i \in 1..Len(links) :
             Count([j \in 1..Len(result) |-> PlatformUrl(result[j])], links[i])
               = Count(links, links[i])

\* C6: the result of parseText is ordered by platform-table order first, and
\* by position in the text only within one platform.
C6_PlatformOrder ==
    op = "parseText" =>
        /\ \A i, j \in 1..Len(result) :
              i < j => Rank(result[i].platform) <= Rank(result[j].platform)
        /\ \A i \in 1..(Len(result) - 1) :
              result[i].platform = result[i + 1].platform =>
                  \E x, y \in 0..Len(text) :
                      /\ Occurs(result[i].url, text, x)
                      /\ Occurs(result[i + 1].url, text, y)
                      /\ x + Len(result[i].url) <= y

\* a match of an earlier platform is reported before a match of a later
\* platform that stands before it in the text
C6_Witness ==
    /\ op = "parseText"
    /\ \E i, j \in 1..Len(result) :
          /\ i < j
          /\ Rank(result[i].platform) < Rank(result[j].platform)
          /\ FirstOccurrence(result[i].url, text) > FirstOccurrence(result[j].url, text)
    /\ \E i \in 1..(Len(result) - 1) :
          /\ result[i].platform = result[i + 1].platform
          /\ result[i].url # result[i + 1].url

\* C7: parseText does not deduplicate across platforms: when the scans of two
\* platforms' patterns match overlapping substrings of the text, both matches
\* are in the result, each under its platform.
C7_NoDedupAcrossPlatforms ==
    op = "parseText" =>
        \A p, q \in PlatformSet :
            p # q =>
                LET ms == matchAll(text, p, lastIndex[p])
                    ns == matchAll(text, q, lastIndex[q])
                IN \A i \in 1..Len(ms), j \in 1..Len(ns) :
                       Overlap(ms[i], ns[j]) =>
                           /\ \E k \in 1..Len(result) :
                                 PlatformUrl(result[k]) = Link(p, ms[i].str)
                           /\ \E k \in 1..Len(result) :
                                 PlatformUrl(result[k]) = Link(q, ns[j].str)

\* the SoundCloud URL that ends in .mp3 is reported as soundcloud and as
\* directAudio
C7_Witness ==
    /\ op = "parseText"
    /\ text = scMp3Link.url
    /\ Len(result) = 2
    /\ PlatformUrl(result[1]) = Link("soundcloud", scLink.url)
    /\ PlatformUrl(result[2]) = Link("directAudio", scMp3Link.url)

\* the platforms whose scan, as this call runs it, finds a match
Scanned(t, li) == {p \in PlatformSet : exec(p, t, li[p]).ok}

\* C8: getFirstAudio returns null when parseText of the text is empty, and
\* otherwise the first element of parseText: the first match of the
\* earliest-registered platform that its scan finds in the text.
C8_FirstAudio ==
    op = "getFirstAudio" =>
        LET all == parseText(text, lastIndex)
            found == Scanned(text, lastIndex)
        IN /\ all = <<>> <=> found = {}
           /\ all = <<>> => result = Null
           /\ all # <<>> =>
                 /\ result = all[1]
                 /\ \A p \in found : Rank(result.platform) <= Rank(p)
                 /\ result.url = exec(result.platform, text, lastIndex[result.platform]).str
           /\ links = <<>> => result = Null

\* the audio returned is not the link that stands first in the text
C8_Witness ==
    /\ op = "getFirstAudio"
    /\ result # Null
    /\ Len(links) = 2
    /\ result.url = links[2].url
    /\ links[1].url # links[2].url
    /\ Len(parseText(text, lastIndex)) = 2

\* C10: every Spotify match that parseText reports has a non-empty embedHtml:
\* the Spotify builder's own pattern matches whatever the platform pattern
\* matched.
C10_SpotifyEmbedNeverEmpty ==
    op = "parseText" =>
        \A i \in 1..Len(result) :
            result[i].platform = "spotify" => result[i].embedHtml # EmptyFragment

\* C19: every YouTube match that parseText reports has a non-empty embedHtml:
\* createYouTubeEmbed extracts a video id from whatever the platform pattern
\* matched.
C19_YouTubeEmbedNeverEmpty ==
    op = "parseText" =>
        \A i \in 1..Len(result) :
            result[i].platform = "youtube" => result[i].embedHtml # EmptyFragment

(***************************************************************************)
(* Properties of the feed loader                                           *)
(***************************************************************************)
\* the handlers that call loadDiscussions
RequestEvents == {"click", "retry", "tick"}

\* C1 as stated: at most one request to the GraphQL endpoint is in flight at
\* any moment, the feed fetch and the last-comment fetches counted together.
C1_OneRequestInFlight == feedInFlight + lastCommentInFlight <= 1

\* C1: at most one fetchDiscussions request is in flight at any moment; the
\* isLoading guard does not cover the last-comment fetches.
C1_OneFeedFetchInFlight == feedInFlight <= 1

\* a refresh click during a feed fetch starts no second feed fetch, while
\* last-comment fetches run beside the feed fetch
C1_Witness ==
    /\ event.name = "click"
    /\ event.dropped
    /\ feedInFlight = 1
    /\ lastCommentInFlight >= 2

\* C2: a call of loadDiscussions while isLoading is true is dropped: it starts
\* no fetch and leaves isLoading, the discussions and the feed as they are;
\* it is not queued: a fetch starts only in a step of a click, a retry or a
\* timer tick.
C2_DroppedWhileLoading ==
    [][ /\ (event'.name \in RequestEvents /\ isLoading) =>
              /\ event'.dropped
              /\ UNCHANGED <<isLoading, discussions, feed, feedInFlight>>
        /\ event'.name \notin RequestEvents => feedInFlight' <= feedInFlight
      ]_vars

\* a timer tick arrived during a fetch and was dropped
C2_Witness ==
    /\ event.name = "tick"
    /\ event.dropped
    /\ isLoading
    /\ feedInFlight = 1

FetchFails(response) == response.kind \in {"rejected", "http", "graphql"}

ExpectedMessage(response) ==
    CASE response.kind = "rejected" -> "Failed to fetch"
      [] response.kind = "http" -> "HTTP error! status: " \o response.status
      [] response.kind = "graphql" -> response.errors[1]

\* a failed load, of either kind, leaves the error state with the message and
\* the retry button, and no request in flight
FailureShown ==
    (event.name = "feedSettled" /\ FetchFails(event.response)) =>
        /\ feed = ErrorView(ExpectedMessage(event.response))
        /\ ~isLoading
        /\ feedInFlight = 0

\* C9 as stated: a failed load, by the transport or by GraphQL errors, shows
\* the error state, and from the error state a fetch starts only by a retry
\* or refresh click.
C9_OnlyUserActionRefetches ==
    /\ []FailureShown
    /\ [][(feed.kind = "error" /\ feedInFlight' > feedInFlight)
             => event'.name \in {"click", "retry"}]_vars

\* C9: a failed load, by the transport or by GraphQL errors, shows the error
\* state, and from the error state a fetch starts only by a retry click, a
\* refresh click or a tick of the auto-refresh timer.
C9_FailureShownNoRetry ==
    /\ []FailureShown
    /\ [][(feed.kind = "error" /\ feedInFlight' > feedInFlight)
             => event'.name \in {"click", "retry", "tick"}]_vars

\* the load failed with GraphQL errors and the first message is shown
C9_Witness ==
    /\ event.name = "feedSettled"
    /\ event.response.kind = "graphql"
    /\ feed = ErrorView("API rate limit exceeded")
    /\ ~isLoading

\* isLoading is true exactly while a feed fetch is in flight, and the spinner
\* is shown only while isLoading is true
LoadingWhileInFlight ==
    /\ isLoading <=> feedInFlight = 1
    /\ ~isLoading => feed.kind # "loading"

\* C16: isLoading is true exactly while a fetchDiscussions request of
\* loadDiscussions is in flight; every fetch that settles, by success, by a
\* transport or GraphQL error or by an exception while formatting, sets
\* isLoading to false; when every fetch settles, isLoading becomes false
\* again and a refresh request that comes then is accepted; the spinner is
\* not shown while isLoading is false.
C16_LoadingResets ==
    /\ []LoadingWhileInFlight
    /\ [][ /\ event'.name = "feedSettled" => (~isLoading' /\ feed'.kind # "loading")
           /\ (event'.name \in RequestEvents /\ ~isLoading)
                 => (~event'.dropped /\ isLoading' /\ feedInFlight' = 1)
         ]_vars
    /\ (isLoading ~> ~isLoading)

\* a load ended by an exception thrown while formatting a node of the
\* response: isLoading is false again and the error state is shown
C16_Witness ==
    /\ event.name = "feedSettled"
    /\ event.response = Ok(<<node1, NullNode>>)
    /\ ~isLoading
    /\ feedInFlight = 0
    /\ feed = ErrorView("Cannot read properties of null (reading 'id')")

\* C17: whenever the feed shows cards, they are the cards of the stored
\* discussions filtered by the search query handled last (all of them when
\* the query is blank); a refresh that completes under a non-blank query
\* brings no filtered-out discussion back.
C17_CardsMatchQuery ==
    feed.kind = "cards" => feed = CardsView(Searched(discussions, query))

\* the response fails the load: the fetch rejects, or a node is null and
\* formatting it throws
LoadFails(response) ==
    \/ FetchFails(response)
    \/ \E i \in 1..Len(response.nodes) : response.nodes[i] = NullNode

\* C18: a failed feed load, by a rejected fetch or by an exception while
\* formatting a node, leaves the stored discussions as they were, so that a
\* later search filters the list loaded last; the stored list changes only
\* to the complete formatted result of a successful fetch.
C18_FailedLoadKeepsDiscussions ==
    [][ /\ (event'.name = "feedSettled" /\ LoadFails(event'.response))
              => discussions' = discussions
        /\ (event'.name = "feedSettled" /\ ~LoadFails(event'.response))
              => discussions' = [i \in 1..Len(event'.response.nodes) |->
                                    formatDiscussion(event'.response.nodes[i])]
        /\ event'.name # "feedSettled" => discussions' = discussions
        /\ event'.name = "search"
              => feed' = renderDiscussions(Searched(discussions, query')).view
      ]_vars

\* a load failed while formatting a null node, after a load that had stored
\* two discussions, and the two are still stored
C18_Witness ==
    /\ event.name = "feedSettled"
    /\ event.response = Ok(<<node1, NullNode>>)
    /\ Len(discussions) = 2
    /\ feed.kind = "error"

\* C20: at most one auto-refresh interval timer is active, the stored one:
\* startAutoRefresh clears the stored timer before it creates the new one;
\* after stopAutoRefresh no timer is active and autoRefreshTimer is null, and
\* a tick calls loadDiscussions only while a started timer is stored.
C20_OneTimerActive ==
    /\ [](/\ Cardinality(activeTimers) <= 1
          /\ autoRefreshTimer = 0 => activeTimers = {}
          /\ autoRefreshTimer # 0 => activeTimers = {autoRefreshTimer})
    /\ [][ /\ timersCreated' > timersCreated
                 => (/\ activeTimers' = {autoRefreshTimer'}
                     /\ autoRefreshTimer' # autoRefreshTimer)
           /\ event'.name = "stop"
                 => (activeTimers' = {} /\ autoRefreshTimer' = 0)
           /\ event'.name = "tick" => autoRefreshTimer # 0
         ]_vars

\* a second start while the timer of the first is active: only the new timer
\* is active
C20_Witness ==
    /\ event.name = "start"
    /\ timersCreated >= 2
    /\ autoRefreshTimer = timersCreated
    /\ activeTimers = {timersCreated}
    /\ enableAutoRefresh
    /\ initPc = "done"

(***************************************************************************)
(* Properties of the embed builders                                        *)
(***************************************************************************)
BuilderOps ==
    {"createSoundCloudEmbed", "createYouTubeEmbed", "createSpotifyEmbed",
     "createBandcampEmbed", "createDirectAudioEmbed"}

IdChars == WordChars \cup {"-"}

\* the indices of url where prefix stands with an id character behind it
IdStarts(url, prefix) ==
    {i + Len(prefix) : i \in {j \in 0..Len(url) :
                               /\ Occurs(prefix, url, j)
                               /\ j + Len(prefix) < Len(url)
                               /\ url[j + Len(prefix) + 1] \in IdChars}}

\* the maximal run of id characters of url from index i
IdAt(url, i) ==
    LET ends == {e \in (i + 1)..Len(url) :
                    /\ \A k \in (i + 1)..e : url[k] \in IdChars
                    /\ (e = Len(url) \/ url[e + 1] \notin IdChars)}
    IN SubSeq(url, i + 1, Min(ends))

YouTubeShapes == <<<<"y","o","u","t","u","b","e",".","c","o","m","/","w","a","t","c","h","?","v","=">>, <<"y","o","u","t","u",".","b","e","/">>, <<"y","o","u","t","u","b","e",".","c","o","m","/","e","m","b","e","d","/">>>>

\* the shapes of YouTubeShapes that url has, by their place in the order
ShapesOf(url) == {k \in 1..Len(YouTubeShapes) : IdStarts(url, YouTubeShapes[k]) # {}}

SpotifyTypes == {<<"t","r","a","c","k">>, <<"a","l","b","u","m">>, <<"p","l","a","y","l","i","s","t">>}

\* C11: every builder returns a string for every URL string and does not
\* throw; createYouTubeEmbed returns '' when the URL has none of the three
\* shapes, and createSpotifyEmbed returns '' when the URL has no
\* spotify.com/<type>/<id>.
C11_BuildersNeverThrow ==
    op \in BuilderOps =>
        /\ "tag" \in DOMAIN result
        /\ (op = "createYouTubeEmbed" /\ ShapesOf(text) = {})
              => result = EmptyFragment
        /\ (op = "createSpotifyEmbed"
            /\ \A ty \in SpotifyTypes : IdStarts(text, <<"s","p","o","t","i","f","y",".","c","o","m","/">> \o ty \o <<"/">>) = {})
              => result = EmptyFragment

\* C12: createYouTubeEmbed takes the video id from the first of the shapes
\* watch?v=, youtu.be/, embed/ (in this order) that the URL has, whatever
\* other shapes occur in it; the id is the maximal run of word characters and
\* hyphens behind the shape prefix, and the src of the fragment is
\* https://www.youtube.com/embed/<id>; https://youtu.be/dQw4w9WgXcQ gives
\* /embed/dQw4w9WgXcQ.
C12_YouTubeFirstShapeWins ==
    (op = "createYouTubeEmbed" /\ ShapesOf(text) # {}) =>
        LET shape == YouTubeShapes[Min(ShapesOf(text))]
            id == IdAt(text, Min(IdStarts(text, shape)))
        IN /\ result.tag = "iframe"
           /\ result.src = Src("https://www.youtube.com/embed/", id, "")
           /\ text = ytShortLink.url => id = <<"d","Q","w","4","w","9","W","g","X","c","Q">>

\* a URL with two shapes, the one that is first in the order standing behind
\* the other one in the URL
C12_Witness ==
    /\ op = "createYouTubeEmbed"
    /\ Cardinality(ShapesOf(text)) = 2
    /\ \E k \in ShapesOf(text) :
          /\ k > Min(ShapesOf(text))
          /\ Min(IdStarts(text, YouTubeShapes[k]))
               < Min(IdStarts(text, YouTubeShapes[Min(ShapesOf(text))]))
    /\ result.src.arg = <<"w","_","1">>

\* the places of url where spotify.com/<type>/ stands with an id character
\* behind it: where it starts, the type, and where the id starts
SpotifyItems(url) ==
    UNION {{[start |-> i - Len(<<"s","p","o","t","i","f","y",".","c","o","m","/">> \o ty \o <<"/">>), type |-> ty, id |-> i] :
               i \in IdStarts(url, <<"s","p","o","t","i","f","y",".","c","o","m","/">> \o ty \o <<"/">>)} :
           ty \in SpotifyTypes}

C13_NoReportedUrlLeft ==
    op = "formatPostText" =>
        LET audioUrls == parseText(text, lastIndex)
        IN \A i \in 1..Len(audioUrls) : ~includes(result, audioUrls[i].url)

MarkupChars == {"&", "<", ">"}

\* the text with the reported urls removed and a <br> element for every newline
Shown(t, li) ==
    ReplaceAll(removeUrls(t, parseText(t, li)), [c \in {"\n"} |-> <<"<","b","r",">">>])

\* C15: formatPostText limits the display text to 300 characters: the text
\* left after URL removal and newline conversion is returned whole when it has
\* at most 300 characters, and else its first 300 characters followed by
\* '...'; every newline of the kept text is a <br> element in the returned
\* markup, not escaped text and not cut by the truncation.
C15_TruncatedWithLineBreaks ==
    (op = "formatPostText" /\ \A i \in 1..Len(text) : text[i] \notin MarkupChars) =>
        LET shown == Shown(text, lastIndex)
        IN /\ Len(shown) <= maxLength => result = shown
           /\ Len(shown) > maxLength
                => result = SubSeq(shown, 1, maxLength) \o <<".",".",".">>
           /\ ~includes(result, <<"&","l","t",";">>)
           /\ \A i \in 0..(Len(result) - 1) :
                 result[i + 1] = "<" => Occurs(<<"<","b","r",">">>, result, i)
====
